---- MODULE Spec2Model ----
(***************************************************************************)
(* A model of the flood-risk lookup tools:                                 *)
(*   - cli.py        main(): load addresses, find risk files, geocode      *)
(*                   every row, sample every raster, write the CSV;        *)
(*   - nominatim.py  NominatimLookup.lookup();                             *)
(*   - bag.py        BAGLookup.__init__() and BAGLookup.lookup();          *)
(*   - flooding.py   RiskLookup.lookup().                                  *)
(* One behaviour of the model is one run of one of these entry points; the *)
(* variable prog says which.                                               *)
(*                                                                         *)
(* Representation.  A Python str is a sequence of one-character strings.   *)
(* A table cell is a tagged tuple, so that any two cells can be compared:  *)
(* NaN (pandas' missing value), a str, Num(n), or an abstract value built  *)
(* by one of the external libraries (geocoder, projection, raster).        *)
(* A DataFrame is [index, columns, values]: the row labels, the column     *)
(* names, and one sequence of cells per column.                            *)
(***************************************************************************)
EXTENDS Integers, Sequences, FiniteSets, TLC

\* ------------------------------------------------------------------ bounds
\* Most rows of an input address table (tables have 1..MaxRows rows).
MaxRows == 2
\* Most entries of the raster directory.
MaxDirSize == 2
\* Row labels of a table handed to a resolver are drawn from 0..MaxLabel.
MaxLabel == 2
\* A postcode argument is made of at most MaxRuns runs of one character.
MaxRuns == 5
\* Most digits in a run of digits of a postcode argument.
MaxDigits == 5
\* Most characters in a run of letters or of whitespace.
MaxOther == 2

\* ----------------------------------------------------------------- strings
UpperChars == <<"A", "B", "C", "D", "E", "F", "G", "H", "I", "J", "K", "L", "M",
                "N", "O", "P", "Q", "R", "S", "T", "U", "V", "W", "X", "Y", "Z">>
LowerChars == <<"a", "b", "c", "d", "e", "f", "g", "h", "i", "j", "k", "l", "m",
                "n", "o", "p", "q", "r", "s", "t", "u", "v", "w", "x", "y", "z">>
DigitChars == <<"0", "1", "2", "3", "4", "5", "6", "7", "8", "9">>

InSeq(c, s) == \E i \in 1..Len(s) : s[i] = c

\* str.lower() and str.upper(), one character at a time.
LowerChar(c) ==
    IF InSeq(c, UpperChars)
    THEN LowerChars[CHOOSE i \in 1..Len(UpperChars) : UpperChars[i] = c]
    ELSE c

UpperChar(c) ==
    IF InSeq(c, LowerChars)
    THEN UpperChars[CHOOSE i \in 1..Len(LowerChars) : LowerChars[i] = c]
    ELSE c

StrLower(s) == [i \in 1..Len(s) |-> LowerChar(s[i])]
StrUpper(s) == [i \in 1..Len(s) |-> UpperChar(s[i])]

\* str.replace(" ", "_").
ReplaceSpaces(s) == [i \in 1..Len(s) |-> IF s[i] = " " THEN "_" ELSE s[i]]

\* s[:-4]
DropLast4(s) == IF Len(s) <= 4 THEN <<>> ELSE SubSeq(s, 1, Len(s) - 4)

EndsWith(s, suffix) ==
    /\ Len(s) >= Len(suffix)
    /\ SubSeq(s, Len(s) - Len(suffix) + 1, Len(s)) = suffix

\* str(n) for a natural number n.
RECURSIVE Digits(_)
Digits(n) ==
    IF n < 10 THEN <<DigitChars[n + 1]>>
    ELSE Digits(n \div 10) \o <<DigitChars[(n % 10) + 1]>>

\* ------------------------------------------------------------------- cells
NaN == <<"NaN">>
Num(n) == <<"num", n>>
IsNum(v) == Len(v) = 2 /\ v[1] = "num"
\* pd.notna(value)
NotNa(v) == v # NaN

\* -------------------------------------------------------------- DataFrames
NRows(df) == Len(df.index)
HasColumn(df, name) == InSeq(name, df.columns)
ColPos(df, name) == CHOOSE k \in 1..Len(df.columns) : df.columns[k] = name
\* df[name]; a KeyError when the column is missing (the callers guard on it).
Column(df, name) == df.values[ColPos(df, name)]
Cell(df, name, i) == Column(df, name)[i]

RangeIndex(n) == [i \in 1..n |-> i - 1]

\* df.assign(**{name: cells}) for cells aligned with df's rows: an existing
\* column is overwritten in place, a new one is appended.
Assign(df, name, cells) ==
    IF HasColumn(df, name)
    THEN [df EXCEPT !.values[ColPos(df, name)] = cells]
    ELSE [df EXCEPT !.columns = Append(@, name), !.values = Append(@, cells)]

\* json_normalize(series): one row per element of the Series, one column per
\* key in order of first appearance; an element that is None (or a dict
\* without the key) gives NaN.  A result of the per-row lookup is
\* [found, items]: None is [found |-> FALSE, items |-> <<>>], a dict is its
\* sequence of <<key, value>> items.
None == [found |-> FALSE, items |-> <<>>]
Dict(items) == [found |-> TRUE, items |-> items]

DictHas(items, key) == \E k \in 1..Len(items) : items[k][1] = key
DictGet(items, key) ==
    IF DictHas(items, key)
    THEN items[CHOOSE k \in 1..Len(items) : items[k][1] = key][2]
    ELSE NaN

RECURSIVE AddKeys(_, _, _)
AddKeys(keys, items, k) ==
    IF k > Len(items) THEN keys
    ELSE AddKeys(IF InSeq(items[k][1], keys) THEN keys
                 ELSE Append(keys, items[k][1]), items, k + 1)

RECURSIVE NormalizedKeys(_, _, _)
NormalizedKeys(keys, results, i) ==
    IF i > Len(results) THEN keys
    ELSE NormalizedKeys(AddKeys(keys, results[i].items, 1), results, i + 1)

\* The index json_normalize gives its result.  pandas before 3.0 turns the
\* Series into a list first and so labels the rows 0..n-1; pandas 3.0 keeps
\* the labels of the Series.  Both builds are possible.  (pandas before 1.3
\* does not accept a None element at all; the model is of the later ones.)
NormalizeIndexes(labels) == {RangeIndex(Len(labels)), labels}

JsonNormalize(results, index) ==
    LET keys == NormalizedKeys(<<>>, results, 1) IN
    [index   |-> index,
     columns |-> keys,
     values  |-> [k \in 1..Len(keys) |->
                    [i \in 1..Len(results) |-> DictGet(results[i].items, keys[k])]]]

\* left.join(right): a left join on the row labels.  Every left row, in
\* order, is paired with each right row that carries its label (in order),
\* or with a row of NaN when there is none.
RECURSIVE RightMatches(_, _, _)
RightMatches(rindex, label, j) ==
    IF j > Len(rindex) THEN <<>>
    ELSE (IF rindex[j] = label THEN <<j>> ELSE <<>>)
         \o RightMatches(rindex, label, j + 1)

RECURSIVE JoinPairs(_, _, _)
JoinPairs(lindex, rindex, i) ==
    IF i > Len(lindex) THEN <<>>
    ELSE LET m == RightMatches(rindex, lindex[i], 1) IN
         (IF m = <<>> THEN << <<i, 0>> >> ELSE [k \in 1..Len(m) |-> <<i, m[k]>>])
         \o JoinPairs(lindex, rindex, i + 1)

Join(left, right) ==
    LET pairs == JoinPairs(left.index, right.index, 1)
        n == Len(pairs)
    IN  [index   |-> [p \in 1..n |-> left.index[pairs[p][1]]],
         columns |-> left.columns \o right.columns,
         values  |-> [k \in 1..Len(left.columns) |->
                        [p \in 1..n |-> left.values[k][pairs[p][1]]]]
                     \o
                     [k \in 1..Len(right.columns) |->
                        [p \in 1..n |-> IF pairs[p][2] = 0 THEN NaN
                                        ELSE right.values[k][pairs[p][2]]]]]

\* ------------------------------------------------------------ column names
c_street == <<"s", "t", "r", "e", "e", "t">>
c_house_number == <<"h", "o", "u", "s", "e", "_", "n", "u", "m", "b", "e", "r">>
c_postal_code == <<"p", "o", "s", "t", "a", "l", "_", "c", "o", "d", "e">>
c_postcode == <<"p", "o", "s", "t", "c", "o", "d", "e">>
c_house_letter == <<"h", "o", "u", "s", "e", "_", "l", "e", "t", "t", "e", "r">>
c_house_suffix == <<"h", "o", "u", "s", "e", "_", "s", "u", "f", "f", "i", "x">>
c_geocode_coordinates ==
    <<"g", "e", "o", "c", "o", "d", "e", "_",
      "c", "o", "o", "r", "d", "i", "n", "a", "t", "e", "s">>
c_geocode_ == <<"g", "e", "o", "c", "o", "d", "e", "_">>
c_road == <<"r", "o", "a", "d">>
c_village == <<"v", "i", "l", "l", "a", "g", "e">>
c_municipality == <<"m", "u", "n", "i", "c", "i", "p", "a", "l", "i", "t", "y">>
c_state == <<"s", "t", "a", "t", "e">>
c_longitude == <<"l", "o", "n", "g", "i", "t", "u", "d", "e">>
c_latitude == <<"l", "a", "t", "i", "t", "u", "d", "e">>
c_amersfoort_x == <<"a", "m", "e", "r", "s", "f", "o", "o", "r", "t", "_", "x">>
c_amersfoort_y == <<"a", "m", "e", "r", "s", "f", "o", "o", "r", "t", "_", "y">>

\* ------------------------------------------------------------------ inputs
\* The address rows the input tables are made of.  Between them they cover
\* house_letter and house_suffix being null or present in all four ways, a
\* postcode written with and without the space, and an address that the
\* spatial database does not hold.
s_Dam == <<"D", "a", "m">>
s_Kade == <<"K", "a", "d", "e">>
s_1012_JS == <<"1", "0", "1", "2", " ", "J", "S">>
s_1012JS == <<"1", "0", "1", "2", "J", "S">>
s_9999_ZZ == <<"9", "9", "9", "9", " ", "Z", "Z">>

AddressPool ==
    { [street |-> s_Dam, house_number |-> Num(1), postcode |-> s_1012_JS,
       house_letter |-> NaN, house_suffix |-> NaN],
      [street |-> s_Dam, house_number |-> Num(1), postcode |-> s_1012JS,
       house_letter |-> <<"a">>, house_suffix |-> NaN],
      [street |-> s_Dam, house_number |-> Num(2), postcode |-> s_1012JS,
       house_letter |-> NaN, house_suffix |-> <<"h">>],
      [street |-> s_Dam, house_number |-> Num(2), postcode |-> s_1012_JS,
       house_letter |-> <<"b">>, house_suffix |-> <<"h">>],
      [street |-> s_Kade, house_number |-> Num(7), postcode |-> s_9999_ZZ,
       house_letter |-> NaN, house_suffix |-> NaN] }

\* The lists of 1..MaxRows address rows.
AddressLists == UNION { [1..n -> AddressPool] : n \in 1..MaxRows }

\* The row labels a caller's table can carry: any labels, repeated or not.
LabelLists(n) == [1..n -> 0..MaxLabel]

\* The file names a raster directory is made of.
f_Flood_A_tif == <<"F", "l", "o", "o", "d", " ", "A", ".", "t", "i", "f">>
f_flood_a_tif == <<"f", "l", "o", "o", "d", "_", "a", ".", "t", "i", "f">>
f_Depth_tif == <<"D", "e", "p", "t", "h", ".", "t", "i", "f">>
f_street_tif == <<"s", "t", "r", "e", "e", "t", ".", "t", "i", "f">>
f_notes_txt == <<"n", "o", "t", "e", "s", ".", "t", "x", "t">>

FileNames == {f_Flood_A_tif, f_flood_a_tif, f_Depth_tif, f_street_tif, f_notes_txt}
Directories == {d \in SUBSET FileNames : Cardinality(d) <= MaxDirSize}

\* The orders in which a directory listing can return the files of a set.
Orderings(S) ==
    {s \in [1..Cardinality(S) -> S] : \A i, j \in 1..Cardinality(S) : s[i] = s[j] => i = j}

\* ------------------------------------------------------ external libraries
\* What the geocoding request of one row can do: return a location, return
\* None (no match), or raise (geopy raises GeocoderTimedOut,
\* GeocoderUnavailable, ... on a network failure or a timeout; it returns
\* None only for an empty result).
GeocodeOutcomes == {"match", "none", "error"}

\* The location the geocoding service returns for a query: abstract values
\* that name the query they answer.
GeoLatitude(query) == <<"lat", query.street, query.postalcode>>
GeoLongitude(query) == <<"lon", query.street, query.postalcode>>
GeoRaw(query, field) == <<"raw", field, query.street, query.postalcode>>

\* pyproj: Transformer.transform(a, b) between two reference systems.
ToAmersfoort(lat, lon) == [x |-> <<"rd_x", lat, lon>>, y |-> <<"rd_y", lat, lon>>]
ToGPS(x, y) == [lat |-> <<"gps_lat", x, y>>, lon |-> <<"gps_lon", x, y>>]

\* xarray: the value of the cell of raster file nearest to a coordinate.
NearestCell(file, x, y) == <<"risk", file, x, y>>

\* str(value) of a cell inside an f-string.
Format(v) == IF IsNum(v) THEN Digits(v[2]) ELSE v

\* ------------------------------------------------------------------- state
VARIABLES
    prog,          \* the entry point this run executes
    pc,            \* where the run is
    error,         \* the exception that ended the run ("" while there is none)
    failedAt,      \* the value of pc when the exception was raised
    exitCode,      \* the exit code of main() (-1 while it runs)
    csv,           \* main: the state of the address CSV file
    input,         \* the address table as read / as handed to lookup()
    directory,     \* the file names in the raster directory
    addresses,     \* the table being built (addresses / data in the code)
    coordinates,   \* the results of the per-row lookups made so far
    risk_files,    \* the raster files found, in discovery order
    opened,        \* for every raster tried so far, whether it could be read
    assignments,   \* RiskLookup.lookup: the columns collected so far
    output,        \* the table written / returned
    clock,         \* seconds of time.sleep() so far
    requestTimes,  \* the clock at every geocoding request made
    dbKind,        \* BAGLookup: what is at bag_path
    database,      \* BAGLookup: whether self._database is a connection
    lastQuery,     \* BAGLookup: the query last executed, and the row it was for
    rawPostcode,   \* _format_pc6: the string it is first called with
    formatted      \* _format_pc6: what its successive calls returned

vars == <<prog, pc, error, failedAt, exitCode, csv, input, directory, addresses,
          coordinates, risk_files, opened, assignments, output, clock,
          requestTimes, dbKind, database, lastQuery, rawPostcode, formatted>>

NoFrame == [index |-> <<>>, columns |-> <<>>, values |-> <<>>]
NoQuery == [row |-> 0, filters |-> <<>>, params |-> <<>>, bound |-> <<>>]

\* The run ends with an exception (or SystemExit) raised at the current step.
Raise(name, code) ==
    /\ pc' = "aborted"
    /\ error' = name
    /\ failedAt' = pc
    /\ exitCode' = code

\* ------------------------------------------------------------ cli.py main
\* pd.read_csv on a file that holds the given address rows.
CsvFrame(rows, columns) ==
    [index   |-> RangeIndex(Len(rows)),
     columns |-> columns,
     values  |-> [k \in 1..Len(columns) |->
                    [i \in 1..Len(rows) |->
                       IF columns[k] = c_street THEN rows[i].street
                       ELSE IF columns[k] = c_house_number THEN rows[i].house_number
                       ELSE IF columns[k] \in {c_postal_code, c_postcode}
                            THEN rows[i].postcode
                       ELSE IF columns[k] = c_house_letter THEN rows[i].house_letter
                       ELSE rows[i].house_suffix]]]

CsvStates == {"ok", "not_found", "malformed", "missing_columns"}
MainColumns == <<c_street, c_house_number, c_postal_code>>
MainRequired == {c_street, c_house_number, c_postal_code}

MainInit ==
    /\ prog = "main"
    /\ pc = "start"
    /\ csv \in CsvStates
    /\ \E rows \in AddressLists :
          input = CASE csv = "ok" -> CsvFrame(rows, MainColumns)
                    [] csv = "missing_columns" ->
                          CsvFrame(rows, <<c_street, c_house_number>>)
                    [] OTHER -> NoFrame
    /\ directory \in Directories
    /\ dbKind = "none"

\* main(), lines 209-213: parse the arguments, set up logging.
MainStart ==
    /\ prog = "main" /\ pc = "start"
    /\ pc' = "load_addresses"
    /\ UNCHANGED <<prog, error, failedAt, exitCode, csv, input, directory,
                   addresses, coordinates, risk_files, opened, assignments,
                   output, clock, requestTimes, dbKind, database, lastQuery,
                   rawPostcode, formatted>>

\* load_addresses(): sys.exit(1) when the file is missing, cannot be parsed
\* or lacks a required column.
LoadAddresses ==
    /\ prog = "main" /\ pc = "load_addresses"
    /\ IF csv \in {"not_found", "malformed"}
          \/ MainRequired \ {input.columns[k] : k \in 1..Len(input.columns)} # {}
       THEN /\ Raise("SystemExit", 1)
            /\ UNCHANGED addresses
       ELSE /\ addresses' = input
            /\ pc' = "find_risk_files"
            /\ UNCHANGED <<error, failedAt, exitCode>>
    /\ UNCHANGED <<prog, csv, input, directory, coordinates, risk_files,
                   opened, assignments, output, clock, requestTimes, dbKind,
                   database, lastQuery, rawPostcode, formatted>>

\* Path(risk_data).glob("*.tif"): the entries whose name ends in .tif, in
\* the order the directory listing gives them.
Glob(dir) == {f \in dir : EndsWith(f, <<".", "t", "i", "f">>)}

\* find_risk_files() of cli.py: sys.exit(1) when no file is found.
FindRiskFiles ==
    /\ prog = "main" /\ pc = "find_risk_files"
    /\ \E files \in Orderings(Glob(directory)) :
          IF files = <<>>
          THEN /\ Raise("SystemExit", 1)
               /\ UNCHANGED risk_files
          ELSE /\ risk_files' = files
               /\ pc' = "lookup_address"
               /\ UNCHANGED <<error, failedAt, exitCode>>
    /\ UNCHANGED <<prog, csv, input, directory, addresses, coordinates, opened,
                   assignments, output, clock, requestTimes, dbKind, database,
                   lastQuery, rawPostcode, formatted>>

\* Where the run goes after a row of addresses.apply(..., axis=1): to the
\* next row, or on when results holds one result per row.
AfterRow(results) == IF Len(results) = NRows(addresses) THEN "join" ELSE pc

\* AfterRaster with a loop that is left after its first turn.
AfterRasterBreak(tried, next) == next

\* Where the run goes after a turn of "for risk_file in risk_files": to the
\* next file, or on (to next) when every file has had its turn.
AfterRaster(tried, next) == IF Len(tried) = Len(risk_files) THEN next ELSE pc

\* The seconds lookup_address sleeps after a request.
SleepSeconds == 1

\* The dict lookup_address() of cli.py returns for a location.
GeoData(query) ==
    <<  <<c_geocode_coordinates, <<"tuple", GeoLatitude(query), GeoLongitude(query)>> >>,
        <<c_geocode_ \o c_road, GeoRaw(query, "road")>>,
        <<c_geocode_ \o c_house_number, GeoRaw(query, "house_number")>>,
        <<c_geocode_ \o c_village, GeoRaw(query, "village")>>,
        <<c_geocode_ \o c_municipality, GeoRaw(query, "municipality")>>,
        <<c_geocode_ \o c_state, GeoRaw(query, "state")>>,
        <<c_geocode_ \o c_postcode, GeoRaw(query, "postcode")>>  >>

\* The query lookup_address() of cli.py sends for row i.
MainQuery(df, i) ==
    [street     |-> Format(Cell(df, c_street, i)) \o <<" ">>
                    \o Format(Cell(df, c_house_number, i)),
     postalcode |-> Cell(df, c_postal_code, i)]

\* One call of lookup_address() by addresses.apply (main, lines 220-225): the
\* request, then time.sleep(1), then the result.  An exception raised by the
\* request leaves the function, and main, at once.
LookupAddress ==
    /\ prog = "main" /\ pc = "lookup_address"
    /\ Len(coordinates) < NRows(addresses)
    /\ LET query == MainQuery(addresses, Len(coordinates) + 1) IN
       \E outcome \in GeocodeOutcomes :
          /\ requestTimes' = Append(requestTimes, clock)
          /\ IF outcome = "error"
             THEN /\ Raise("GeocoderServiceError", 1)
                  /\ UNCHANGED <<coordinates, clock>>
             ELSE /\ clock' = clock + SleepSeconds
                  /\ coordinates' = Append(coordinates,
                                           IF outcome = "none" THEN None
                                           ELSE Dict(GeoData(query)))
                  /\ pc' = AfterRow(coordinates')
                  /\ UNCHANGED <<error, failedAt, exitCode>>
    /\ UNCHANGED <<prog, csv, input, directory, addresses, risk_files, opened,
                   assignments, output, dbKind, database, lastQuery,
                   rawPostcode, formatted>>

\* main, lines 226-227: locations = pd.json_normalize(locations);
\* addresses = addresses.join(locations).
JoinLocations ==
    /\ prog = "main" /\ pc = "join"
    /\ \E index \in NormalizeIndexes(addresses.index) :
          addresses' = Join(addresses, JsonNormalize(coordinates, index))
    /\ pc' = "lookup_risks"
    /\ UNCHANGED <<prog, error, failedAt, exitCode, csv, input, directory,
                   coordinates, risk_files, opened, assignments, output, clock,
                   requestTimes, dbKind, database, lastQuery,
                   rawPostcode, formatted>>

\* risk_file.name[:-4].lower().replace(" ", "_")
ColumnName(file) == ReplaceSpaces(StrLower(DropLast4(file)))

\* lookup_risks() of cli.py on a raster that could be read: every coordinate
\* is transformed to the raster's projection (pyproj's itransform raises a
\* TypeError on an element that is not a tuple, which NaN is not), then the
\* nearest cell is read.
MainRiskScores(gps, file) ==
    [i \in 1..Len(gps) |->
        LET t == <<"crs", file, gps[i]>> IN NearestCell(file, t, t)]

\* One turn of the loop of main, lines 230-236.
MainLookupRisks ==
    /\ prog = "main" /\ pc = "lookup_risks"
    /\ Len(opened) < Len(risk_files)
    /\ LET risk_file == risk_files[Len(opened) + 1]
           column_name == ColumnName(risk_file)
       IN  IF ~HasColumn(addresses, c_geocode_coordinates)
           THEN /\ Raise("KeyError", 1)
                /\ UNCHANGED <<addresses, opened>>
           ELSE \E readable \in BOOLEAN :
                  LET gps == Column(addresses, c_geocode_coordinates) IN
                  IF ~readable
                  THEN /\ opened' = Append(opened, FALSE)
                       /\ pc' = AfterRaster(opened', "to_csv")
                       /\ UNCHANGED <<addresses, error, failedAt, exitCode>>
                  ELSE IF \E i \in 1..Len(gps) : gps[i] = NaN
                  THEN /\ Raise("TypeError", 1)
                       /\ UNCHANGED <<addresses, opened>>
                  ELSE /\ addresses' = Assign(addresses, column_name,
                                              MainRiskScores(gps, risk_file))
                       /\ opened' = Append(opened, TRUE)
                       /\ pc' = AfterRaster(opened', "to_csv")
                       /\ UNCHANGED <<error, failedAt, exitCode>>
    /\ UNCHANGED <<prog, csv, input, directory, coordinates, risk_files,
                   assignments, output, clock, requestTimes, dbKind, database,
                   lastQuery, rawPostcode, formatted>>

\* main, lines 238-242: addresses.to_csv(output_file, index=False).
WriteOutput ==
    /\ prog = "main" /\ pc = "to_csv"
    /\ output' = [addresses EXCEPT !.index = RangeIndex(NRows(addresses))]
    /\ pc' = "done"
    /\ exitCode' = 0
    /\ UNCHANGED <<prog, error, failedAt, csv, input, directory, addresses,
                   coordinates, risk_files, opened, assignments, clock,
                   requestTimes, dbKind, database, lastQuery,
                   rawPostcode, formatted>>

\* ------------------------------------------------- postcode normalisation
IsDigit(c) == InSeq(c, DigitChars)
IsSpace(c) == c \in {" ", "\t", "\n"}
\* \w of a str pattern: a letter, a digit or the underscore.
IsWord(c) == InSeq(c, UpperChars) \/ InSeq(c, LowerChars) \/ IsDigit(c) \/ c = "_"

\* The end of the (greedy) match of \s* that starts at position j.
RECURSIVE SkipSpaces(_, _)
SkipSpaces(s, j) ==
    IF j <= Len(s) /\ IsSpace(s[j]) THEN SkipSpaces(s, j + 1) ELSE j

\* re.sub(r"(\d{4})\s*(\w{2})", r"\1<sep>\2", s) from position i on: the
\* leftmost match is replaced and the scan goes on behind it; a character at
\* which no match starts is copied.  \s and \w share no character, so the
\* greedy \s* is the only way the pattern can match at a position.
RECURSIVE SubPc6(_, _, _)
SubPc6(s, i, sep) ==
    IF i > Len(s) THEN <<>>
    ELSE LET k == SkipSpaces(s, i + 4) IN
         IF /\ i + 3 <= Len(s)
            /\ \A d \in 0..3 : IsDigit(s[i + d])
            /\ k + 1 <= Len(s)
            /\ IsWord(s[k]) /\ IsWord(s[k + 1])
         THEN SubSeq(s, i, i + 3) \o sep \o SubSeq(s, k, k + 1)
              \o SubPc6(s, k + 2, sep)
         ELSE <<s[i]>> \o SubPc6(s, i + 1, sep)

\* BAGLookup._format_pc6: 4 digits 2 letters without a space.
BagFormatPc6(postcode) == SubPc6(postcode, 1, <<>>)
\* NominatimLookup._format_pc6: 4 digits <space> 2 letters.
NominatimFormatPc6(postcode) == SubPc6(postcode, 1, <<" ">>)

\* ------------------------------------------- the table handed to lookup()
LookupColumns ==
    <<c_street, c_postcode, c_house_number, c_house_letter, c_house_suffix>>

\* A caller's DataFrame: address rows under any row labels.
LookupInput ==
    /\ csv = "none"
    /\ directory = {}
    /\ \E rows \in AddressLists : \E labels \in LabelLists(Len(rows)) :
          input = [CsvFrame(rows, LookupColumns) EXCEPT !.index = labels]

MapColumn(df, name, F(_)) ==
    Assign(df, name, [i \in 1..NRows(df) |-> F(Cell(df, name, i))])

\* ------------------------------------------ nominatim.py NominatimLookup
NominatimInit ==
    /\ prog = "NominatimLookup"
    /\ pc = "lookup"
    /\ LookupInput
    /\ dbKind = "none"

\* lookup(), lines 40-54: the missing-column check (which only logs) and the
\* postcode formatting.
NominatimFormat ==
    /\ prog = "NominatimLookup" /\ pc = "lookup"
    /\ addresses' = MapColumn(input, c_postcode, NominatimFormatPc6)
    /\ pc' = "_lookup_address"
    /\ UNCHANGED <<prog, error, failedAt, exitCode, csv, input, directory,
                   coordinates, risk_files, opened, assignments, output, clock,
                   requestTimes, dbKind, database, lastQuery,
                   rawPostcode, formatted>>

\* NominatimLookup._format_street
NominatimFormatStreet(df, i) ==
    Format(Cell(df, c_street, i)) \o <<" ">> \o Format(Cell(df, c_house_number, i))
    \o (IF NotNa(Cell(df, c_house_letter, i))
        THEN Format(Cell(df, c_house_letter, i)) ELSE <<>>)
    \o (IF NotNa(Cell(df, c_house_suffix, i))
        THEN <<" ">> \o Format(Cell(df, c_house_suffix, i)) ELSE <<>>)

NominatimQuery(df, i) ==
    [street |-> NominatimFormatStreet(df, i), postalcode |-> Cell(df, c_postcode, i)]

\* The dict NominatimLookup._lookup_address returns for a location.
NominatimData(query) ==
    LET lat == GeoLatitude(query)
        lon == GeoLongitude(query)
        rd  == ToAmersfoort(lat, lon)
    IN  << <<c_longitude, lon>>, <<c_latitude, lat>>,
           <<c_amersfoort_x, rd.x>>, <<c_amersfoort_y, rd.y>> >>

\* One call of NominatimLookup._lookup_address by addresses.apply: the
\* request, then time.sleep(1), then the result.  There is no handler around
\* the request: what it raises leaves _lookup_address and lookup.
NominatimLookupAddress ==
    /\ prog = "NominatimLookup" /\ pc = "_lookup_address"
    /\ Len(coordinates) < NRows(addresses)
    /\ LET query == NominatimQuery(addresses, Len(coordinates) + 1) IN
       \E outcome \in GeocodeOutcomes :
          /\ requestTimes' = Append(requestTimes, clock)
          /\ IF outcome = "error"
             THEN /\ Raise("GeocoderServiceError", 1)
                  /\ UNCHANGED <<coordinates, clock>>
             ELSE /\ clock' = clock + SleepSeconds
                  /\ coordinates' = Append(coordinates,
                                           IF outcome = "none" THEN None
                                           ELSE Dict(NominatimData(query)))
                  /\ pc' = AfterRow(coordinates')
                  /\ UNCHANGED <<error, failedAt, exitCode>>
    /\ UNCHANGED <<prog, csv, input, directory, addresses, risk_files, opened,
                   assignments, output, dbKind, database, lastQuery,
                   rawPostcode, formatted>>

\* The last line of NominatimLookup.lookup and of BAGLookup.lookup:
\* return addresses.join(pd.json_normalize(coordinates)).
LookupJoin ==
    /\ prog \in {"NominatimLookup", "BAGLookup"} /\ pc = "join"
    /\ \E index \in NormalizeIndexes(addresses.index) :
          output' = Join(addresses, JsonNormalize(coordinates, index))
    /\ pc' = "done"
    /\ UNCHANGED <<prog, error, failedAt, exitCode, csv, input, directory,
                   addresses, coordinates, risk_files, opened, assignments,
                   clock, requestTimes, dbKind, database, lastQuery,
                   rawPostcode, formatted>>

\* ----------------------------------------------------- bag.py BAGLookup
\* What can be at bag_path: nothing; a file that cannot be opened (no read
\* permission); a file that is not an SQLite database; a database without
\* the BAG tables; the BAG data.
DbKinds == {"missing", "unopenable", "not_a_database", "no_schema", "bag"}

s_H == <<"H">>
\* The rows of verblijfsobject joined with their bounding boxes.  One
\* address is stored with a lower-case letter.
BagRows ==
    { [postcode |-> s_1012JS, huisnummer |-> Num(1), huisletter |-> NaN,
       toevoeging |-> NaN, minx |-> 10, maxx |-> 14, miny |-> 20, maxy |-> 22],
      [postcode |-> s_1012JS, huisnummer |-> Num(1), huisletter |-> <<"a">>,
       toevoeging |-> NaN, minx |-> 30, maxx |-> 32, miny |-> 40, maxy |-> 48],
      [postcode |-> s_1012JS, huisnummer |-> Num(2), huisletter |-> NaN,
       toevoeging |-> s_H, minx |-> 50, maxx |-> 56, miny |-> 60, maxy |-> 62],
      [postcode |-> s_1012JS, huisnummer |-> Num(2), huisletter |-> <<"B">>,
       toevoeging |-> s_H, minx |-> 70, maxx |-> 72, miny |-> 80, maxy |-> 84] }

BagInit ==
    /\ prog = "BAGLookup"
    /\ pc = "__init__"
    /\ LookupInput
    /\ dbKind \in DbKinds

\* BAGLookup.__init__ and _connect.  os.path.isfile fails for a missing
\* file; sqlite3.connect opens the file, and raises OperationalError when it
\* cannot, but reads nothing from it: a file that is not a database is
\* connected to like any other.
BagConnect ==
    /\ prog = "BAGLookup" /\ pc = "__init__"
    /\ IF dbKind \in {"missing", "unopenable"}
       THEN /\ Raise("RuntimeError", 1)
            /\ UNCHANGED database
       ELSE /\ database' = TRUE
            /\ pc' = "lookup"
            /\ UNCHANGED <<error, failedAt, exitCode>>
    /\ UNCHANGED <<prog, csv, input, directory, addresses, coordinates,
                   risk_files, opened, assignments, output, clock,
                   requestTimes, dbKind, lastQuery, rawPostcode, formatted>>

\* BAGLookup._make_upper
MakeUpper(value) == IF value = NaN \/ IsNum(value) THEN value ELSE StrUpper(value)

\* lookup(), lines 45-55: the missing-column check (which only logs), the
\* postcode formatting and the upper-casing of letter and suffix.
BagFormat ==
    /\ prog = "BAGLookup" /\ pc = "lookup"
    /\ addresses' = MapColumn(MapColumn(MapColumn(input, c_postcode, BagFormatPc6),
                                        c_house_letter, MakeUpper),
                              c_house_suffix, MakeUpper)
    /\ pc' = "_lookup_address"
    /\ UNCHANGED <<prog, error, failedAt, exitCode, csv, input, directory,
                   coordinates, risk_files, opened, assignments, output, clock,
                   requestTimes, dbKind, database, lastQuery,
                   rawPostcode, formatted>>

\* The query _lookup_address builds for row i (lines 121-141): the filters
\* of its WHERE clause, the names in params, and list(address[params]).
BagParams(df, i) ==
    <<c_postcode, c_house_number>>
    \o (IF NotNa(Cell(df, c_house_letter, i)) THEN <<c_house_letter>> ELSE <<>>)
    \o (IF NotNa(Cell(df, c_house_suffix, i)) THEN <<c_house_suffix>> ELSE <<>>)

\* BagFilters with the letter filter added whether or not the row has a letter.
BagFiltersAlways(df, i) ==
    <<"postcode = ?", "huisnummer = ?", "UPPER(huisletter) = ?">>
    \o (IF NotNa(Cell(df, c_house_suffix, i))
        THEN <<"UPPER(toevoeging) = ?">> ELSE <<>>)

BagFilters(df, i) ==
    <<"postcode = ?", "huisnummer = ?">>
    \o (IF NotNa(Cell(df, c_house_letter, i))
        THEN <<"UPPER(huisletter) = ?">> ELSE <<>>)
    \o (IF NotNa(Cell(df, c_house_suffix, i))
        THEN <<"UPPER(toevoeging) = ?">> ELSE <<>>)

BagQuery(df, i) ==
    LET params == BagParams(df, i) IN
    [row     |-> i,
     filters |-> BagFilters(df, i),
     params  |-> params,
     bound   |-> [k \in 1..Len(params) |-> Cell(df, params[k], i)]]

\* SQLite's evaluation of one filter on one row with its bound value; a
\* comparison with NULL is never true.
FilterHolds(filter, value, row) ==
    CASE filter = "postcode = ?" -> value # NaN /\ row.postcode = value
      [] filter = "huisnummer = ?" -> value # NaN /\ row.huisnummer = value
      [] filter = "UPPER(huisletter) = ?" ->
            value # NaN /\ row.huisletter # NaN /\ StrUpper(row.huisletter) = value
      [] filter = "UPPER(toevoeging) = ?" ->
            value # NaN /\ row.toevoeging # NaN /\ StrUpper(row.toevoeging) = value

\* The rows the executed query selects.
Selected(query) ==
    {row \in BagRows :
        \A k \in 1..Len(query.filters) :
            FilterHolds(query.filters[k], query.bound[k], row)}

\* The dict _lookup_address returns for a selected row (lines 150-165).
BagData(row) ==
    LET loc_x == (row.minx + row.maxx) \div 2
        loc_y == (row.miny + row.maxy) \div 2
        gps   == ToGPS(loc_x, loc_y)
    IN  << <<c_longitude, gps.lon>>, <<c_latitude, gps.lat>>,
           <<c_amersfoort_x, Num(loc_x)>>, <<c_amersfoort_y, Num(loc_y)>> >>

\* One call of BAGLookup._lookup_address by addresses[required].apply.  The
\* first statement executed on the connection reads the file: SQLite then
\* reports a file that is not a database (sqlite3.DatabaseError, which the
\* handler for OperationalError does not catch) or a missing table
\* (OperationalError, re-raised as RuntimeError).  A statement whose number
\* of placeholders differs from the number of bound values is refused
\* (ProgrammingError).  fetchone() returns any one of the selected rows, the
\* query having no ORDER BY.
BagLookupAddress ==
    /\ prog = "BAGLookup" /\ pc = "_lookup_address"
    /\ Len(coordinates) < NRows(addresses)
    /\ LET query == BagQuery(addresses, Len(coordinates) + 1) IN
       /\ lastQuery' = query
       /\ IF dbKind = "not_a_database"
          THEN /\ Raise("DatabaseError", 1)
               /\ UNCHANGED coordinates
          ELSE IF dbKind = "no_schema"
          THEN /\ Raise("RuntimeError", 1)
               /\ UNCHANGED coordinates
          ELSE IF Len(query.bound) # Len(query.filters)
          THEN /\ Raise("ProgrammingError", 1)
               /\ UNCHANGED coordinates
          ELSE /\ \E location \in (IF Selected(query) = {} THEN {None}
                                   ELSE {Dict(BagData(row)) : row \in Selected(query)}) :
                     coordinates' = Append(coordinates, location)
               /\ pc' = AfterRow(coordinates')
               /\ UNCHANGED <<error, failedAt, exitCode>>
    /\ UNCHANGED <<prog, csv, input, directory, addresses, risk_files, opened,
                   assignments, output, clock, requestTimes, dbKind, database,
                   rawPostcode, formatted>>

\* ------------------------------------------------ flooding.py RiskLookup
\* The table a resolver hands on: the address columns and, unless no row at
\* all was resolved, the coordinate columns, NaN in the rows without a match.
ResolvedFrame(rows, found) ==
    LET base == CsvFrame(rows, LookupColumns) IN
    IF \A i \in 1..Len(rows) : ~found[i] THEN base
    ELSE [base EXCEPT
            !.columns = @ \o <<c_amersfoort_x, c_amersfoort_y>>,
            !.values = @ \o << [i \in 1..Len(rows) |->
                                  IF found[i] THEN Num(10 * i) ELSE NaN],
                               [i \in 1..Len(rows) |->
                                  IF found[i] THEN Num(10 * i + 1) ELSE NaN] >>]

RiskInit ==
    /\ prog = "RiskLookup"
    /\ pc = "risk_lookup"
    /\ csv = "none"
    /\ dbKind = "none"
    /\ directory \in Directories
    /\ \E rows \in AddressLists : \E found \in [1..Len(rows) -> BOOLEAN] :
          input = ResolvedFrame(rows, found)

\* lookup(), lines 61-73: the missing-column check (which only logs), the
\* Series of coordinate tuples (a KeyError when a column is missing) and
\* _find_risk_files, which returns [] when there is no file.
RiskStart ==
    /\ prog = "RiskLookup" /\ pc = "risk_lookup"
    /\ addresses' = input
    /\ IF ~HasColumn(input, c_amersfoort_x) \/ ~HasColumn(input, c_amersfoort_y)
       THEN /\ Raise("KeyError", 1)
            /\ UNCHANGED <<coordinates, risk_files>>
       ELSE /\ coordinates' = [i \in 1..NRows(input) |->
                                 <<"tuple", Cell(input, c_amersfoort_x, i),
                                            Cell(input, c_amersfoort_y, i)>>]
            /\ \E files \in Orderings(Glob(directory)) :
                  /\ risk_files' = files
                  /\ pc' = IF files = <<>> THEN "assign" ELSE "_lookup_risks"
            /\ UNCHANGED <<error, failedAt, exitCode>>
    /\ UNCHANGED <<prog, csv, input, directory, opened, assignments, output,
                   clock, requestTimes, dbKind, database, lastQuery,
                   rawPostcode, formatted>>

\* assignments[column_name] = risk_scores on the dict of lookup(): a key
\* that is there keeps its place and gets the new value.
DictSet(items, key, value) ==
    IF DictHas(items, key)
    THEN [items EXCEPT ![CHOOSE k \in 1..Len(items) : items[k][1] = key] = <<key, value>>]
    ELSE Append(items, <<key, value>>)

\* What risk_data.sel(x=nan, y=nan, method="nearest") does is left to the
\* index lookup of the installed pandas: it answers with a cell at the edge
\* of the raster, or finds no position, which xarray reports as a KeyError.
NanSelections == {"edge", "KeyError"}

\* _lookup_risks() on a raster that could be read.
RiskScores(coords, file) ==
    [i \in 1..Len(coords) |-> NearestCell(file, coords[i][2], coords[i][3])]

\* One turn of the loop of lookup(), lines 74-80.
RiskLookupRisks ==
    /\ prog = "RiskLookup" /\ pc = "_lookup_risks"
    /\ Len(opened) < Len(risk_files)
    /\ LET risk_file == risk_files[Len(opened) + 1]
           column_name == ColumnName(risk_file)
       IN  \E readable \in BOOLEAN, selection \in NanSelections :
              IF ~readable
              THEN /\ opened' = Append(opened, FALSE)
                   /\ pc' = AfterRaster(opened', "assign")
                   /\ UNCHANGED <<assignments, error, failedAt, exitCode>>
              ELSE IF /\ \E i \in 1..Len(coordinates) : coordinates[i][2] = NaN
                      /\ selection = "KeyError"
              THEN /\ Raise("KeyError", 1)
                   /\ UNCHANGED <<assignments, opened>>
              ELSE /\ assignments' = DictSet(assignments, column_name,
                                             RiskScores(coordinates, risk_file))
                   /\ opened' = Append(opened, TRUE)
                   /\ pc' = AfterRaster(opened', "assign")
                   /\ UNCHANGED <<error, failedAt, exitCode>>
    /\ UNCHANGED <<prog, csv, input, directory, addresses, coordinates,
                   risk_files, output, clock, requestTimes, dbKind, database,
                   lastQuery, rawPostcode, formatted>>

RECURSIVE AssignAll(_, _, _)
AssignAll(df, items, k) ==
    IF k > Len(items) THEN df
    ELSE AssignAll(Assign(df, items[k][1], items[k][2]), items, k + 1)

\* lookup(), line 82: return data.assign(**assignments).
RiskAssign ==
    /\ prog = "RiskLookup" /\ pc = "assign"
    /\ output' = AssignAll(addresses, assignments, 1)
    /\ pc' = "done"
    /\ UNCHANGED <<prog, error, failedAt, exitCode, csv, input, directory,
                   addresses, coordinates, risk_files, opened, assignments,
                   clock, requestTimes, dbKind, database, lastQuery,
                   rawPostcode, formatted>>

\* ----------------------------------------------------------- specification
Init ==
    /\ error = "" /\ failedAt = "" /\ exitCode = -1
    /\ addresses = NoFrame /\ coordinates = <<>> /\ risk_files = <<>>
    /\ opened = <<>> /\ assignments = <<>> /\ output = NoFrame
    /\ clock = 0 /\ requestTimes = <<>>
    /\ database = FALSE /\ lastQuery = NoQuery
    /\ rawPostcode = <<>> /\ formatted = <<>>
    /\ \/ MainInit
       \/ NominatimInit
       \/ BagInit
       \/ RiskInit

Next ==
    \/ MainStart
    \/ LoadAddresses
    \/ FindRiskFiles
    \/ LookupAddress
    \/ JoinLocations
    \/ MainLookupRisks
    \/ WriteOutput
    \/ NominatimFormat
    \/ NominatimLookupAddress
    \/ LookupJoin
    \/ BagConnect
    \/ BagFormat
    \/ BagLookupAddress
    \/ RiskStart
    \/ RiskLookupRisks
    \/ RiskAssign

Spec == Init /\ [][Next]_vars

\* ------------------------------------------- _format_pc6 called on its own
\* The characters a postcode argument is made of: a digit, a letter and two
\* kinds of whitespace.  The pattern tells characters apart by class only.
Pc6Alphabet == {"1", "A", " ", "\t"}

Run(c, n) == [k \in 1..n |-> c]

Pc6Runs ==
    {Run(c, n) : c \in Pc6Alphabet, n \in 1..MaxDigits}
        \ {Run(c, n) : c \in Pc6Alphabet \ {"1"}, n \in (MaxOther + 1)..MaxDigits}

\* The strings of at most n runs in which neighbouring runs differ in their
\* character: well-formed postcodes ("1111AA", "1111 AA") and malformed ones
\* (too few or too many digits, letters first, spaces anywhere, empty).
RECURSIVE Postcodes(_)
Postcodes(n) ==
    IF n = 0 THEN {<<>>}
    ELSE LET shorter == Postcodes(n - 1) IN
         shorter \cup
         UNION {{r \o p : r \in {x \in Pc6Runs : p = <<>> \/ x[1] # p[1]}}
                   : p \in shorter}

Pc6Init ==
    /\ error = "" /\ failedAt = "" /\ exitCode = -1
    /\ addresses = NoFrame /\ coordinates = <<>> /\ risk_files = <<>>
    /\ opened = <<>> /\ assignments = <<>> /\ output = NoFrame
    /\ clock = 0 /\ requestTimes = <<>>
    /\ database = FALSE /\ lastQuery = NoQuery
    /\ csv = "none" /\ input = NoFrame /\ directory = {} /\ dbKind = "none"
    /\ prog \in {"BAGLookup._format_pc6", "NominatimLookup._format_pc6"}
    /\ pc = "_format_pc6"
    /\ rawPostcode \in Postcodes(MaxRuns)
    /\ formatted = <<>>

\* The argument of the next call: the original string, then what the call
\* before returned.
Pc6Argument ==
    IF formatted = <<>> THEN rawPostcode ELSE formatted[Len(formatted)]

\* One call of BAGLookup._format_pc6.  re.sub raises for no str argument,
\* so the call always returns.
BagFormatPc6Call ==
    /\ prog = "BAGLookup._format_pc6"
    /\ pc \in {"_format_pc6", "again"}
    /\ formatted' = Append(formatted, BagFormatPc6(Pc6Argument))
    /\ pc' = IF pc = "_format_pc6" THEN "again" ELSE "done"
    /\ UNCHANGED <<prog, error, failedAt, exitCode, csv, input, directory,
                   addresses, coordinates, risk_files, opened, assignments,
                   output, clock, requestTimes, dbKind, database, lastQuery,
                   rawPostcode>>

\* One call of NominatimLookup._format_pc6.
NominatimFormatPc6Call ==
    /\ prog = "NominatimLookup._format_pc6"
    /\ pc \in {"_format_pc6", "again"}
    /\ formatted' = Append(formatted, NominatimFormatPc6(Pc6Argument))
    /\ pc' = IF pc = "_format_pc6" THEN "again" ELSE "done"
    /\ UNCHANGED <<prog, error, failedAt, exitCode, csv, input, directory,
                   addresses, coordinates, risk_files, opened, assignments,
                   output, clock, requestTimes, dbKind, database, lastQuery,
                   rawPostcode>>

Pc6Next ==
    \/ BagFormatPc6Call
    \/ NominatimFormatPc6Call

Pc6Spec == Pc6Init /\ [][Pc6Next]_vars

\* ------------------------------------------------------------------ claims
SeqSet(q) == {q[k] : k \in 1..Len(q)}

\* The phase of the pipeline driver that a position of main() belongs to:
\* 1 Idle, 2 LoadingAddresses (load_addresses and find_risk_files, "Load
\* addresses and find risk files"), 3 Resolving, 4 Sampling, 5 WritingOutput,
\* 6 Done.
PhaseNo(p) ==
    CASE p = "start" -> 1
      [] p \in {"load_addresses", "find_risk_files"} -> 2
      [] p \in {"lookup_address", "join"} -> 3
      [] p = "lookup_risks" -> 4
      [] p = "to_csv" -> 5
      [] p = "done" -> 6
      [] OTHER -> 0

\* A step of main() stays in its phase, enters the next one, or aborts.
PhaseStep ==
    prog = "main" =>
        \/ pc' = "aborted"
        \/ PhaseNo(pc') = PhaseNo(pc)
        \/ PhaseNo(pc') = PhaseNo(pc) + 1

\* What has happened by the time main() is where it is.
PhaseState ==
    prog = "main" =>
        \* a request is made only for a row of the loaded table
        /\ (requestTimes # <<>> \/ coordinates # <<>>) =>
              /\ addresses # NoFrame /\ NRows(addresses) = NRows(input)
              /\ risk_files # <<>>
        \* a raster is tried only when every row has been through the resolver
        /\ (PhaseNo(pc) >= 4 \/ opened # <<>> \/ failedAt = "lookup_risks") =>
              Len(coordinates) = NRows(input)
        \* the table is written only when every raster found has had its turn
        /\ (PhaseNo(pc) >= 5 \/ output # NoFrame) =>
              /\ Len(opened) = Len(risk_files)
              /\ SeqSet(risk_files) = Glob(directory)
        /\ output # NoFrame <=> pc = "done"
        /\ pc = "done" => exitCode = 0 /\ error = ""

\* C1: a run of main() that does not abort goes through Idle,
\* LoadingAddresses, Resolving, Sampling, WritingOutput and Done in that
\* order, one phase at a time: no request is made before the table is
\* loaded, no raster is tried before every row has been through the
\* resolver, the table is written only after every raster found has had its
\* turn, and Done is reached only with the table written.
C1_PhaseOrder == [][PhaseStep]_vars /\ []PhaseState

\* C1's case: a finished run over two rows and two rasters, one of which
\* could not be read.
C1_Witness ==
    /\ prog = "main" /\ pc = "done"
    /\ NRows(input) = 2
    /\ Len(opened) = 2 /\ opened[1] # opened[2]

\* Every row of main()'s table has been through the resolver, which raised
\* nothing.
MainResolved ==
    /\ prog = "main"
    /\ NRows(addresses) > 0
    /\ Len(coordinates) = NRows(addresses)

\* The location columns lookup_address() adds.
MainLocationColumns == [k \in 1..Len(GeoData(<<>>)) |-> GeoData(<<>>)[k][1]]

\* C2: whichever rows the resolver finds no location for, main() goes on
\* through Sampling and WritingOutput to Done and writes one row per input
\* address, the rows without a location with empty location fields.
C2_NotFoundAbsorbed ==
    MainResolved =>
        /\ pc # "aborted"
        /\ pc = "done" =>
              /\ NRows(output) = NRows(input)
              /\ \A i \in 1..NRows(input) :
                    ~coordinates[i].found =>
                        \A k \in 1..Len(MainLocationColumns) :
                            HasColumn(output, MainLocationColumns[k]) =>
                                Cell(output, MainLocationColumns[k], i) = NaN

\* C3: with no raster file in the directory main() does not abort: it ends
\* in Done with exit code 0 and a table without risk columns.
C3_NoRastersCompletes ==
    (prog = "main" /\ csv = "ok" /\ Glob(directory) = {}) =>
        /\ pc # "aborted"
        /\ exitCode \in {-1, 0}
        /\ pc = "done" => output.columns = input.columns \o NormalizedKeys(<<>>, coordinates, 1)

\* The sampling loop of main() has begun.
MainSampling ==
    /\ prog = "main"
    /\ \/ pc \in {"lookup_risks", "to_csv", "done"}
       \/ pc = "aborted" /\ failedAt = "lookup_risks"

\* C4: the sampler tries every raster found; one that cannot be read adds
\* nothing, and every one that can is sampled for every row and its column
\* is there, before or after a failing one; nothing ends the run.
C4_RasterFailuresIsolated ==
    MainSampling =>
        /\ pc # "aborted"
        /\ pc \in {"to_csv", "done"} => Len(opened) = Len(risk_files)
        /\ \A k \in 1..Len(opened) :
              opened[k] =>
                  /\ HasColumn(addresses, ColumnName(risk_files[k]))
                  /\ Len(Column(addresses, ColumnName(risk_files[k]))) = NRows(input)

\* C5: a geocoding request that fails is a row without a location: the
\* batch lookup never ends with the request's exception.
C5_ServiceFailureAbsorbed ==
    prog \in {"main", "NominatimLookup"} => error # "GeocoderServiceError"

\* C6: every geocoding request, whatever its outcome, is followed by a
\* delay of at least one second before the resolver does anything else.
C6_DelayAfterEveryRequest ==
    [][Len(requestTimes') > Len(requestTimes) => clock' >= clock + 1]_vars

\* The location columns of the two resolvers.
LookupLocationColumns == <<c_longitude, c_latitude, c_amersfoort_x, c_amersfoort_y>>

\* C7: lookup() of both resolvers returns the rows of its input in their
\* order, row i with the location of row i's own address, and with null
\* location fields exactly when row i had no match.
C7_RowsAligned ==
    (prog \in {"NominatimLookup", "BAGLookup"} /\ pc = "done") =>
        /\ output.index = input.index
        /\ \A i \in 1..NRows(input) :
              \A k \in 1..Len(LookupLocationColumns) :
                 LET name == LookupLocationColumns[k] IN
                 IF coordinates[i].found
                 THEN /\ HasColumn(output, name)
                      /\ Cell(output, name, i) = DictGet(coordinates[i].items, name)
                 ELSE HasColumn(output, name) => Cell(output, name, i) = NaN

\* The names of the rasters that could be read, in discovery order.
RECURSIVE ReadNames(_)
ReadNames(k) ==
    IF k = 0 THEN <<>>
    ELSE ReadNames(k - 1) \o (IF opened[k] THEN <<ColumnName(risk_files[k])>> ELSE <<>>)

\* The table the sampler was given, and the one it produced.
SamplerInput ==
    IF prog = "main" THEN Join(input, JsonNormalize(coordinates, input.index))
    ELSE input
Sampled == IF prog = "main" THEN addresses ELSE output

\* C8: after sampling the risk columns are, in discovery order, one per
\* raster that could be read, each under the normalised stem of its file,
\* behind the columns the table had, none of which has been replaced.
C8_RiskColumns ==
    (\/ prog = "main" /\ pc \in {"to_csv", "done"}
     \/ prog = "RiskLookup" /\ pc = "done") =>
        /\ Sampled.columns = SamplerInput.columns \o ReadNames(Len(opened))
        /\ \A k \in 1..Len(SamplerInput.columns) :
              Sampled.values[k] = SamplerInput.values[k]

\* C9: a spatial database that is missing or is not a database is reported
\* when the resolver is constructed, before any row is looked up, and never
\* first during the lookup of a row.
C9_DatabaseFailsAtStartup ==
    (prog = "BAGLookup" /\ dbKind \in {"missing", "not_a_database"}) =>
        /\ lastQuery = NoQuery
        /\ pc = "aborted" => failedAt = "__init__"
        /\ pc \notin {"join", "done"}

\* The column a filter of the query compares with.
FilterColumn(filter) ==
    CASE filter = "postcode = ?" -> c_postcode
      [] filter = "huisnummer = ?" -> c_house_number
      [] filter = "UPPER(huisletter) = ?" -> c_house_letter
      [] filter = "UPPER(toevoeging) = ?" -> c_house_suffix

\* C10: the query executed for a row filters on postcode and house number,
\* on the upper-cased letter exactly when the row has a letter and on the
\* upper-cased suffix exactly when it has a suffix, in that order, and binds
\* one value per placeholder: the row's value of the filter's column.
C10_QueryFilters ==
    (prog = "BAGLookup" /\ lastQuery.row > 0) =>
        LET q == lastQuery
            letter == Cell(input, c_house_letter, q.row)
            suffix == Cell(input, c_house_suffix, q.row)
            optional == (IF letter # NaN THEN <<"UPPER(huisletter) = ?">> ELSE <<>>)
                        \o (IF suffix # NaN THEN <<"UPPER(toevoeging) = ?">> ELSE <<>>)
        IN  /\ q.filters = <<"postcode = ?", "huisnummer = ?">> \o optional
            /\ Len(q.bound) = Len(q.filters)
            /\ \A k \in 1..Len(q.bound) :
                  q.bound[k] = Cell(addresses, FilterColumn(q.filters[k]), q.row)
            /\ letter # NaN => q.bound[3] = StrUpper(letter)
            /\ suffix # NaN => q.bound[Len(q.bound)] = StrUpper(suffix)

\* C10's case: a query with both optional filters has been executed and has
\* selected a row.
C10_Witness ==
    /\ prog = "BAGLookup"
    /\ Len(lastQuery.filters) = 4
    /\ lastQuery.row = Len(coordinates)
    /\ coordinates[lastQuery.row].found

\* C11: postcode normalisation is idempotent for both variants: a second
\* call of _format_pc6, on what the first call returned, returns the same
\* string, whatever string of digits, letters and whitespace the first call
\* was given.
C11_Idempotent ==
    Len(formatted) >= 2 => formatted[2] = formatted[1]

====
